---- MODULE Spec2Model ----
(***************************************************************************)
(* Model of specs-static (src/src/lib.rs): Storage<C, D, I>, a component   *)
(* storage indexed by user managed ids.  A Storage owns a presence set     *)
(* (`bitset`) and a backing value strategy (`data`, an UnprotectedStorage  *)
(* whose slots are either uninitialized or hold a component).              *)
(*                                                                         *)
(* Two storages, "A" and "B", live side by side.  Public operations run    *)
(* one at a time (the container is not synchronized; &mut self / &self     *)
(* borrows serialize the callers).  insert and remove are modelled step by *)
(* step, one action per collaborator call, so that the states inside an    *)
(* operation exist in the model.  Every operation ends in the position     *)
(* "return", where its result is visible in `last`, before the caller      *)
(* goes on ("idle").                                                       *)
(***************************************************************************)
EXTENDS Integers, Sequences, FiniteSets, TLC

\* ---------------------------------------------------------------- bounds
MaxId == 2
MaxVal == 2

Ids == 0..MaxId
Storages == {"A", "B"}

\* The component values of each storage (one component type per storage):
\* storage "A" holds components with values 1..MaxVal, storage "B" holds a
\* marker component, a type with a single value.
CompVals(s) == IF s = "A" THEN 1..MaxVal ELSE {1}
Vals == CompVals("A") \cup CompVals("B")

\* Option<C>: None is <<>>, Some(v) is <<v>>.  A slot of the backing strategy
\* uses the same encoding: <<>> is an uninitialized slot.
None == <<>>
Some(v) == <<v>>
Uninit == <<>>
OptVals == {None} \cup {Some(v) : v \in Vals}

VARIABLES
    bitset,    \* bitset[s]: the presence set of storage s        (lib.rs:67)
    data,      \* data[s][i]: slot i of the backing strategy of s (lib.rs:66)
    alive,     \* alive[s]: s has not been dropped yet
    released,  \* released[s][i]: the releases of slot i by data.clean, in
               \* order: TRUE for a component, FALSE for an uninitialized slot
    pc,        \* position of the single caller
    op,        \* the public operation in progress
    last,      \* the operation that has just returned, and its result
    prev,      \* history: the call before the current one, if it was an insert
    latest,    \* history: latest[s][i] is the value of the most recent insert
               \* at i (as later overwritten through a reference), None if
               \* there is none, a remove followed it or s was dropped
    trace,     \* collaborator calls issued by the current/last operation
    join,      \* the join pass in progress
    fresh,     \* history: fresh[s] holds until the first insert into s
    grid       \* the run of examples/basic.rs (see the grid section)

vars == <<bitset, data, alive, released, pc, op, last, prev, latest, trace, join,
          fresh, grid>>

NoOp == [name |-> "none", s |-> "-", id |-> 0, comp |-> None, was |-> FALSE,
         old |-> None, prev |-> None, pre |-> None]
NoLast == [name |-> "none", s |-> "-", id |-> 0, arg |-> None, ret |-> None]
NoPrev == [s |-> "-", id |-> 0, arg |-> None]
NoJoin == [kind |-> "none", parts |-> <<>>, keys |-> <<>>, refs |-> <<>>,
           yields |-> <<>>, written |-> <<>>]

\* examples/basic.rs:84, `Tiles::new(8, 8)`.
Width == 8
Height == 8

\* The cells of the grid, and the materials stored in them (basic.rs:47-51).
GridIds == 0..(Width * Height - 1)
Materials == {"Dirt", "Grass", "Water"}

\* The example has not started: no storage is registered yet.
GridStart ==
    [pc |-> "start", bitset |-> {}, data |-> [i \in GridIds |-> Uninit],
     next |-> 0, got |-> None, keys |-> <<>>, visited |-> <<>>,
     counts |-> [m \in Materials |-> 0]]

Call(fn, s, i) == [fn |-> fn, s |-> s, id |-> i,
                   init |-> data[s][i] # Uninit, mask |-> {}]

\* ------------------------------------------------- collaborators' contracts
\* Variant: add reports the membership without marking the id.
BitSetAddNoMark(b, i) == [set |-> b, was |-> i \in b]

\* hibitset::BitSet::add / remove / contains: the new set and whether the id
\* was a member before the call.
BitSetAdd(b, i) == [set |-> b \cup {i}, was |-> i \in b]
BitSetRemove(b, i) == [set |-> b \ {i}, was |-> i \in b]
BitSetContains(b, i) == i \in b

\* What reading slot i of d produces.  Reading an uninitialized slot is
\* undefined behaviour: any component value may come out.
ReadSlot(s, i) ==
    IF data[s][i] = Uninit THEN {Some(v) : v \in CompVals(s)} ELSE {data[s][i]}

\* UnprotectedStorage::insert writes the slot, ::remove moves the value out.
RawInsert(d, i, v) == [d EXCEPT ![i] = Some(v)]
RawRemove(d, i) == [d EXCEPT ![i] = Uninit]

\* ------------------------------------------------------------------- Init
\* Variant: the presence set of a new storage already contains the first id.
DefaultBitSetFirst == {0}

\* lib.rs:63-69, the derived Default: `bitset` is BitSet::default(), empty.
DefaultBitSet == {}

\* A storage as register_tile_comp adds it (lib.rs:199, Storage::default()).
Init ==
    /\ bitset = [s \in Storages |-> DefaultBitSet]
    /\ data = [s \in Storages |-> [i \in Ids |-> Uninit]]
    /\ alive = [s \in Storages |-> TRUE]
    /\ released = [s \in Storages |-> [i \in Ids |-> <<>>]]
    /\ pc = "idle"
    /\ op = NoOp
    /\ last = NoLast
    /\ prev = NoPrev
    /\ latest = [s \in Storages |-> [i \in Ids |-> None]]
    /\ trace = <<>>
    /\ join = NoJoin
    /\ fresh = [s \in Storages |-> TRUE]
    /\ grid = GridStart

Callable(s) == pc = "idle" /\ alive[s]

\* -------------------------------------------------------------- Storage::get
\* lib.rs:80-85
\* Variant: get reads the slot after the one asked for.
GetSlotNext(i) == (i + 1) % (MaxId + 1)

\* lib.rs:82, `self.data.get(id.id())`: the slot get reads for id i.
GetSlot(i) == i

\* What get(i) can return in the current state.
GetResults(s, i) ==
    IF BitSetContains(bitset[s], i) THEN ReadSlot(s, GetSlot(i)) ELSE {None}

Get(s, i) ==
    /\ Callable(s)
    /\ IF BitSetContains(bitset[s], i)
       THEN /\ \E r \in GetResults(s, i) :
                 last' = [name |-> "get", s |-> s, id |-> i, arg |-> None, ret |-> r]
            /\ trace' = <<Call("bitset.contains", s, i), Call("data.get", s, GetSlot(i))>>
       ELSE /\ last' = [name |-> "get", s |-> s, id |-> i, arg |-> None, ret |-> None]
            /\ trace' = <<Call("bitset.contains", s, i)>>
    /\ pc' = "return"
    /\ prev' = NoPrev
    /\ UNCHANGED <<bitset, data, alive, released, op, latest, join, fresh, grid>>

\* ---------------------------------------------------------- Storage::get_mut
\* Variant: get_mut hands out the slot after the one of the id.
GetMutSlotNext(i) == (i + 1) % (MaxId + 1)

\* lib.rs:92, `self.data.get_mut(id.id())`: the slot the reference points to.
GetMutSlot(i) == i

\* lib.rs:90-95.  The caller writes w through the exclusive reference it got.
GetMut(s, i, w) ==
    /\ Callable(s)
    /\ IF BitSetContains(bitset[s], i)
       THEN /\ \E r \in ReadSlot(s, GetMutSlot(i)) :
                 last' = [name |-> "get_mut", s |-> s, id |-> i, arg |-> Some(w), ret |-> r]
            /\ data' = [data EXCEPT ![s][GetMutSlot(i)] = Some(w)]
            /\ trace' = <<Call("bitset.contains", s, i), Call("data.get_mut", s, GetMutSlot(i))>>
       ELSE /\ last' = [name |-> "get_mut", s |-> s, id |-> i, arg |-> Some(w), ret |-> None]
            /\ data' = data
            /\ trace' = <<Call("bitset.contains", s, i)>>
    /\ latest' = [latest EXCEPT ![s][i] = IF @ = None THEN None ELSE Some(w)]
    /\ pc' = "return"
    /\ prev' = NoPrev
    /\ UNCHANGED <<bitset, alive, released, op, join, fresh, grid>>

\* ----------------------------------------------------------- Storage::insert
\* Variant: the largest id of the domain is rejected.
IsValidIdBelowMax(i) == i < MaxId

\* lib.rs:97-101: "there are no invalid ids", insert and remove take every id
\* as it is, without a validity, liveness or generation check.
IsValidId(i) == TRUE

\* lib.rs:101, the scrutinee `self.bitset.add(id.id())`.
InsertAdd(s, i, v) ==
    /\ Callable(s)
    /\ IsValidId(i)
    /\ LET r == BitSetAdd(bitset[s], i) IN
        /\ bitset' = [bitset EXCEPT ![s] = r.set]
        /\ op' = [name |-> "insert", s |-> s, id |-> i, comp |-> Some(v),
                  was |-> r.was, old |-> None,
                  prev |-> IF prev.s = s /\ prev.id = i THEN prev.arg ELSE None,
                  pre |-> latest[s][i]]
    /\ pc' = "insert_match"
    /\ prev' = NoPrev
    /\ trace' = <<Call("bitset.add", s, i)>>
    /\ fresh' = [fresh EXCEPT ![s] = FALSE]
    /\ UNCHANGED <<data, alive, released, last, latest, join, grid>>

\* Variant: insert never takes the previous value out.
InsertTakesOldNever(was) == FALSE

\* lib.rs:101-104, the arms of the match: the previous value is moved out of
\* the slot when the id was already in the bitset.
InsertTakesOld(was) == was

InsertMatch ==
    /\ pc = "insert_match"
    /\ IF InsertTakesOld(op.was)
       THEN /\ \E r \in ReadSlot(op.s, op.id) : op' = [op EXCEPT !.old = r]
            /\ data' = [data EXCEPT ![op.s] = RawRemove(@, op.id)]
            /\ trace' = Append(trace, Call("data.remove", op.s, op.id))
       ELSE /\ op' = op
            /\ data' = data
            /\ trace' = trace
    /\ pc' = "insert_write"
    /\ UNCHANGED <<bitset, alive, released, last, prev, latest, join, fresh, grid>>

\* lib.rs:106-110, `self.data.insert(id.id(), comp)` and the return of `old`.
InsertWrite ==
    /\ pc = "insert_write"
    /\ data' = [data EXCEPT ![op.s] = RawInsert(@, op.id, op.comp[1])]
    /\ trace' = Append(trace, Call("data.insert", op.s, op.id))
    /\ last' = [name |-> "insert", s |-> op.s, id |-> op.id, arg |-> op.comp,
                ret |-> op.old]
    /\ latest' = [latest EXCEPT ![op.s][op.id] = op.comp]
    /\ pc' = "return"
    /\ op' = NoOp
    /\ UNCHANGED <<bitset, alive, released, prev, join, fresh, grid>>

\* ----------------------------------------------------------- Storage::remove
\* lib.rs:115, the scrutinee `self.bitset.remove(id.id())`.
RemoveBit(s, i) ==
    /\ Callable(s)
    /\ IsValidId(i)
    /\ LET r == BitSetRemove(bitset[s], i) IN
        /\ bitset' = [bitset EXCEPT ![s] = r.set]
        /\ op' = [name |-> "remove", s |-> s, id |-> i, comp |-> None,
                  was |-> r.was, old |-> None,
                  prev |-> IF prev.s = s /\ prev.id = i THEN prev.arg ELSE None,
                  pre |-> latest[s][i]]
    /\ pc' = "remove_match"
    /\ prev' = NoPrev
    /\ trace' = <<Call("bitset.remove", s, i)>>
    /\ UNCHANGED <<data, alive, released, last, latest, join, fresh, grid>>

\* Variants: remove never takes the value out, always does, or has the arms
\* of its match swapped.
RemoveTakesNever(was) == FALSE
RemoveTakesAlways(was) == TRUE
RemoveTakesSwapped(was) == ~was

\* lib.rs:115-118, the arms of the match and the return.
RemoveTakes(was) == was

RemoveMatch ==
    /\ pc = "remove_match"
    /\ IF RemoveTakes(op.was)
       THEN /\ \E r \in ReadSlot(op.s, op.id) :
                 last' = [name |-> "remove", s |-> op.s, id |-> op.id,
                          arg |-> None, ret |-> r]
            /\ data' = [data EXCEPT ![op.s] = RawRemove(@, op.id)]
            /\ trace' = Append(trace, Call("data.remove", op.s, op.id))
       ELSE /\ last' = [name |-> "remove", s |-> op.s, id |-> op.id,
                        arg |-> None, ret |-> None]
            /\ data' = data
            /\ trace' = trace
    /\ latest' = [latest EXCEPT ![op.s][op.id] = None]
    /\ pc' = "return"
    /\ op' = NoOp
    /\ UNCHANGED <<bitset, alive, released, prev, join, fresh, grid>>

\* ------------------------------------------------------- Drop for Storage
\* Variant: clean is told that every slot is live.
CleanMaskAll(s) == Ids

\* lib.rs:137, the mask handed to clean is `&self.bitset`.
CleanMask(s) == bitset[s]

\* lib.rs:135-139, `self.data.clean(&self.bitset)`.  The strategy releases the
\* slot of every index the mask contains, whatever the slot holds; a slot the
\* mask leaves out keeps what it holds and is never released.
Drop(s) ==
    /\ alive[s]
    /\ pc = "idle" \/ (pc = "unwind" /\ op.s = s)
    /\ LET mask == CleanMask(s) IN
        /\ released' = [released EXCEPT ![s] =
                          [i \in Ids |-> IF i \in mask
                                         THEN Append(@[i], data[s][i] # Uninit)
                                         ELSE @[i]]]
        /\ data' = [data EXCEPT ![s] =
                          [i \in Ids |-> IF i \in mask THEN Uninit ELSE @[i]]]
        /\ trace' = <<[fn |-> "data.clean", s |-> s, id |-> 0, init |-> TRUE,
                       mask |-> mask]>>
    /\ alive' = [alive EXCEPT ![s] = FALSE]
    /\ last' = [name |-> "drop", s |-> s, id |-> 0, arg |-> None, ret |-> None]
    /\ pc' = "return"
    /\ op' = NoOp
    /\ prev' = NoPrev
    /\ latest' = [latest EXCEPT ![s] = [i \in Ids |-> None]]
    /\ UNCHANGED <<bitset, join, fresh, grid>>

\* ------------------------------------------------------------------- return
\* The operation has returned and the caller takes its result.  What the
\* history keeps of the call is whether it was an insert, and of what.
Return ==
    /\ pc = "return"
    /\ prev' = IF last.name = "insert"
               THEN [s |-> last.s, id |-> last.id, arg |-> last.arg]
               ELSE NoPrev
    /\ last' = NoLast
    /\ trace' = <<>>
    /\ pc' = "idle"
    /\ UNCHANGED <<bitset, data, alive, released, op, latest, join, fresh, grid>>

\* ------------------------------------------------------------ Join protocol
\* Variant: a participant claims every id.
OpenMaskAll(s) == Ids

\* lib.rs:150-152 and 167-169, `open`: the mask a participant hands to the
\* driver is its own bitset (the value handle is its own data).
OpenMask(s) == bitset[s]

\* Variant: the read join reads the slot after the one of the key.
JoinGetSlotNext(id) == (id + 1) % (MaxId + 1)

\* lib.rs:154-156, `(*value).get(id)`: the slot a read join reads for id.
JoinGetSlot(id) == id

\* Variant: off by one, the reference for id points to the slot before it.
JoinGetMutSlotPrev(id) == IF id > 0 THEN id - 1 ELSE id

\* lib.rs:171-177, `(*value).get_mut(id)`: the slot the exclusive reference
\* handed out for id points to.
JoinGetMutSlot(id) == id

\* The driver (specs' JoinIter over the BitAnd of the masks): the ids common
\* to all masks, ascending.
RECURSIVE BitIter(_)
BitIter(S) ==
    IF S = {} THEN <<>>
    ELSE LET m == CHOOSE x \in S : \A y \in S : x <= y
         IN <<m>> \o BitIter(S \ {m})

JoinKeys(parts) ==
    BitIter({i \in Ids : \A k \in 1..Len(parts) : i \in OpenMask(parts[k])})

JoinParts == {<<"A">>, <<"B">>, <<"A", "B">>, <<"B", "A">>}

JoinOpen(kind, parts) ==
    /\ pc = "idle"
    /\ \A k \in 1..Len(parts) : alive[parts[k]]
    /\ join' = [kind |-> kind, parts |-> parts, keys |-> JoinKeys(parts),
                refs |-> <<>>, yields |-> <<>>, written |-> <<>>]
    /\ trace' = [k \in 1..Len(parts) |->
                    [fn |-> "open", s |-> parts[k], id |-> 0, init |-> TRUE,
                     mask |-> OpenMask(parts[k])]]
    /\ prev' = NoPrev
    /\ pc' = "join"
    /\ UNCHANGED <<bitset, data, alive, released, op, last, latest, fresh, grid>>

\* One iteration of a read join: the driver takes the next key and calls
\* Join::get of every participant with it; the item is the tuple of results.
ReadJoinStep ==
    /\ pc = "join" /\ join.kind = "read" /\ join.keys # <<>>
    /\ LET id == Head(join.keys)
           n == Len(join.parts)
       IN /\ \E t \in [1..n -> OptVals] :
                /\ \A k \in 1..n : t[k] \in ReadSlot(join.parts[k], JoinGetSlot(id))
                /\ join' = [join EXCEPT !.keys = Tail(@),
                                        !.yields = Append(@, [id |-> id, item |-> t])]
          /\ trace' = trace \o [k \in 1..n |->
                                  Call("join.get", join.parts[k], JoinGetSlot(id))]
    /\ UNCHANGED <<bitset, data, alive, released, pc, op, last, prev, latest, fresh, grid>>

\* One iteration of a write join: every participant hands out an exclusive
\* reference for the key and the loop body writes w[k] through the k-th one.
RECURSIVE WriteAll(_, _, _, _)
WriteAll(d, parts, slot, w) ==
    IF parts = <<>> THEN d
    ELSE WriteAll([d EXCEPT ![Head(parts)][slot] = Some(Head(w))],
                  Tail(parts), slot, Tail(w))

WriteJoinStep ==
    /\ pc = "join" /\ join.kind = "write" /\ join.keys # <<>>
    /\ LET id == Head(join.keys)
           n == Len(join.parts)
           slot == JoinGetMutSlot(id)
       IN \E w \in [1..n -> Vals] :
            /\ \A k \in 1..n : w[k] \in CompVals(join.parts[k])
            /\ data' = WriteAll(data, join.parts, slot, w)
            /\ latest' = [s \in Storages |-> [i \in Ids |->
                            IF i = id /\ \E k \in 1..n : join.parts[k] = s
                            THEN Some(w[CHOOSE k \in 1..n : join.parts[k] = s])
                            ELSE latest[s][i]]]
            /\ join' = [join EXCEPT
                          !.keys = Tail(@),
                          !.refs = @ \o [k \in 1..n |-> <<join.parts[k], slot>>],
                          !.written = Append(@, [id |-> id, w |-> w])]
            /\ trace' = trace \o [k \in 1..n |->
                                    Call("join.get_mut", join.parts[k], slot)]
    /\ UNCHANGED <<bitset, alive, released, pc, op, last, prev, fresh, grid>>

\* The keys are exhausted: the pass is over and the borrows end.
JoinEnd ==
    /\ pc = "join" /\ join.keys = <<>>
    /\ join' = NoJoin
    /\ trace' = <<>>
    /\ pc' = "idle"
    /\ UNCHANGED <<bitset, data, alive, released, op, last, prev, latest, fresh, grid>>

\* ------------------------------------------------------------------ unwinding
\* A raw call of the backing strategy (data.remove at lib.rs:102 or 116,
\* data.insert at lib.rs:107) panics before it has any effect; the stack
\* unwinds and the owner of the storage drops it (Drop, lib.rs:135).
RawCallPanics ==
    /\ \/ pc = "insert_write"
       \/ pc = "insert_match" /\ InsertTakesOld(op.was)
       \/ pc = "remove_match" /\ RemoveTakes(op.was)
    /\ pc' = "unwind"
    /\ trace' = Append(trace, [fn |-> "panic", s |-> op.s, id |-> op.id,
                               init |-> data[op.s][op.id] # Uninit, mask |-> {}])
    /\ UNCHANGED <<bitset, data, alive, released, op, last, prev, latest, join, fresh, grid>>

Next ==
    \/ \E s \in Storages, i \in Ids : Get(s, i)
    \/ \E s \in Storages, i \in Ids : \E w \in CompVals(s) : GetMut(s, i, w)
    \/ \E s \in Storages, i \in Ids : \E v \in CompVals(s) : InsertAdd(s, i, v)
    \/ InsertMatch
    \/ InsertWrite
    \/ \E s \in Storages, i \in Ids : RemoveBit(s, i)
    \/ RemoveMatch
    \/ \E s \in Storages : Drop(s)
    \/ Return
    \/ \E kind \in {"read", "write"}, parts \in JoinParts : JoinOpen(kind, parts)
    \/ ReadJoinStep
    \/ WriteJoinStep
    \/ JoinEnd

Spec == Init /\ [][Next]_vars

\* The same program when raw calls of the backing strategy may panic.
NextUnwind == Next \/ RawCallPanics

SpecUnwind == Init /\ [][NextUnwind]_vars

\* ------------------------------------------------- the example, basic.rs
\* The storage operations as functions of a storage st = (bitset, data), each
\* computed as the steps of the operation above compute it.
StInsert(st, i, v) ==
    LET r == BitSetAdd(st.bitset, i)
        d == IF InsertTakesOld(r.was) THEN RawRemove(st.data, i) ELSE st.data
    IN [bitset |-> r.set, data |-> RawInsert(d, i, v)]

StGet(st, i) ==
    IF BitSetContains(st.bitset, i) THEN st.data[GetSlot(i)] ELSE None

\* basic.rs:19-21, Tiles::id.
TileId(x, y) == y * Width + x

\* Variant: the range of iter_all ends after the last cell.
IterAllEndAll == Width * Height

\* basic.rs:23-25, Tiles::iter_all: the ids of the range
\* `0..self.width as u32 * self.height as u32 - 1`, whose end is exclusive.
IterAllEnd == Width * Height - 1

\* basic.rs:97-100, the four inserts that follow the seeding loop.
Overrides ==
    << <<TileId(1, 5), "Grass">>, <<TileId(2, 5), "Grass">>,
       <<TileId(3, 4), "Water">>, <<TileId(3, 7), "Water">> >>

storageVars ==
    <<bitset, data, alive, released, pc, op, last, prev, latest, trace, join, fresh>>

\* basic.rs:84-85, the world is set up and the storage registered (empty).
GridRegister ==
    /\ grid.pc = "start"
    /\ grid' = [grid EXCEPT !.pc = "seed", !.next = 0]
    /\ UNCHANGED storageVars

\* basic.rs:93-95, one iteration of `for tile_id in tiles.iter_all()`.
GridSeed ==
    /\ grid.pc = "seed" /\ grid.next < IterAllEnd
    /\ LET st == StInsert(grid, grid.next, "Dirt") IN
         grid' = [grid EXCEPT !.bitset = st.bitset, !.data = st.data,
                              !.next = @ + 1]
    /\ UNCHANGED storageVars

\* The range of iter_all is exhausted.
GridSeedEnd ==
    /\ grid.pc = "seed" /\ grid.next >= IterAllEnd
    /\ grid' = [grid EXCEPT !.pc = "override", !.next = 1]
    /\ UNCHANGED storageVars

\* basic.rs:97-100, the next of the four inserts, then the dispatch.
GridOverride ==
    /\ grid.pc = "override"
    /\ LET o == Overrides[grid.next]
           st == StInsert(grid, o[1], o[2])
       IN grid' = [grid EXCEPT !.bitset = st.bitset, !.data = st.data,
                               !.next = @ + 1,
                               !.pc = IF grid.next = Len(Overrides)
                                      THEN "run" ELSE "override"]
    /\ UNCHANGED storageVars

\* basic.rs:63-68, Sys::run: `materials.get(tiles.id(3, 4))`, then the read
\* join over the storage is opened.
GridRun ==
    /\ grid.pc = "run"
    /\ grid' = [grid EXCEPT !.got = StGet(grid, TileId(3, 4)),
                            !.keys = BitIter(grid.bitset),
                            !.pc = "join"]
    /\ UNCHANGED storageVars

\* basic.rs:67-73, one item of the join.  The item is the material stored at
\* the key; the tally is kept per material (Sys::run sums the Water ones).
GridJoinStep ==
    /\ grid.pc = "join" /\ grid.keys # <<>>
    /\ LET id == Head(grid.keys)
           mat == grid.data[JoinGetSlot(id)][1]
       IN grid' = [grid EXCEPT !.keys = Tail(@),
                               !.visited = Append(@, id),
                               !.counts[mat] = @ + 1]
    /\ UNCHANGED storageVars

\* basic.rs:73-75, the join is exhausted and the sum printed.
GridJoinEnd ==
    /\ grid.pc = "join" /\ grid.keys = <<>>
    /\ grid' = [grid EXCEPT !.pc = "done"]
    /\ UNCHANGED storageVars

NextGrid ==
    \/ GridRegister
    \/ GridSeed
    \/ GridSeedEnd
    \/ GridOverride
    \/ GridRun
    \/ GridJoinStep
    \/ GridJoinEnd

\* The run of the example program.
SpecGrid == Init /\ [][NextGrid]_vars

\* ====================================================================== claims

\* C1: at every operation boundary of a live storage (no insert or remove in
\* progress), the presence set contains i if and only if slot i of the backing
\* strategy holds an initialized component.
PresenceInvariant ==
    \A s \in Storages :
        (pc \in {"idle", "return", "join"} /\ alive[s]) =>
            \A i \in Ids : (i \in bitset[s]) <=> (data[s][i] # Uninit)

\* A remove has just returned a value from a storage that still holds others.
PresenceInvariantWitness ==
    /\ pc = "return" /\ last.name = "remove" /\ last.ret # None
    /\ alive[last.s] /\ bitset[last.s] # {}
    /\ \E i \in Ids : i \notin bitset[last.s]

\* C2: get(i) returns a value iff the most recent insert at i has not been
\* followed by a remove at i, and the value is the one of that insert, as
\* later overwritten through get_mut or a write join.
GetReturnsLatest ==
    (pc = "return" /\ last.name = "get") => last.ret = latest[last.s][last.id]

\* get has returned a value while another id of the same storage is absent.
GetReturnsLatestWitness ==
    /\ pc = "return" /\ last.name = "get" /\ last.ret # None
    /\ \E i \in Ids : latest[last.s][i] = None

\* C3: an insert(i, v2) that directly follows insert(i, v1) returns Some(v1),
\* an insert at an absent id returns None, and after either get(i) returns
\* Some(v2).
InsertReturnsPrevious ==
    [][\A s \in Storages, i \in Ids :
          (pc = "insert_write" /\ pc' = "return" /\ op.s = s /\ op.id = i) =>
              /\ op.prev # None => last'.ret = op.prev
              /\ op.pre = None => last'.ret = None
              /\ GetResults(s, i)' = {op.comp}]_vars

\* The second of two inserts at one id, with a different value, has taken the
\* first one's value out of the slot and is about to write its own.
InsertReturnsPreviousWitness ==
    /\ pc = "insert_write" /\ op.prev # None
    /\ op.old = op.prev /\ op.comp # op.prev

\* C4: a remove(i) that directly follows insert(i, v) returns Some(v), and
\* afterwards get(i) returns None.
RoundTrip ==
    [][\A s \in Storages, i \in Ids :
          (pc = "remove_match" /\ pc' = "return" /\ op.s = s /\ op.id = i
              /\ op.prev # None) =>
              /\ last'.ret = op.prev
              /\ GetResults(s, i)' = {None}]_vars

\* A remove that directly follows an insert at the same id has cleared the
\* presence bit and is about to take the value.
RoundTripWitness ==
    /\ pc = "remove_match" /\ op.prev # None
    /\ op.id \notin bitset[op.s] /\ data[op.s][op.id] = op.prev

\* C5: remove(i) at an absent id returns None, leaves the presence set and
\* every slot unchanged (in each of its steps) and issues no raw remove.
RemoveAbsentIsNoOp ==
    [][/\ (pc = "idle" /\ pc' = "remove_match" /\ op'.pre = None) =>
              (bitset' = bitset /\ data' = data)
       /\ (pc = "remove_match" /\ pc' = "return" /\ op.pre = None) =>
              /\ bitset' = bitset /\ data' = data
              /\ last'.ret = None
              /\ \A k \in 1..Len(trace') : trace'[k].fn # "data.remove"]_vars

\* A remove has returned None from a storage that holds components.
RemoveAbsentIsNoOpWitness ==
    /\ pc = "return" /\ last.name = "remove" /\ last.ret = None
    /\ bitset[last.s] # {} /\ last.id \notin bitset[last.s]

\* C6: a read join visits exactly the ids present in all its participants'
\* presence sets, each once and in ascending order, and the item of each visit
\* holds, per participant, the value stored in that participant at the id.
ReadJoinVisitsIntersection ==
    (pc = "join" /\ join.kind = "read" /\ join.keys = <<>>) =>
        LET y == join.yields
            n == Len(join.parts)
        IN /\ {y[k].id : k \in 1..Len(y)} =
                 {i \in Ids : \A p \in 1..n : i \in bitset[join.parts[p]]}
           /\ \A k \in 1..(Len(y) - 1) : y[k].id < y[k + 1].id
           /\ \A k \in 1..Len(y) : \A p \in 1..n :
                 y[k].item[p] = data[join.parts[p]][y[k].id]

\* A finished read join over (A, B), A present at {0, 1, 2} with different
\* values at 1 and 2 and B present at {1, 2} only, has visited 1 then 2.
ReadJoinVisitsIntersectionWitness ==
    /\ pc = "join" /\ join.kind = "read" /\ join.keys = <<>>
    /\ join.parts = <<"A", "B">>
    /\ bitset["A"] = {0, 1, 2} /\ bitset["B"] = {1, 2}
    /\ data["A"][1] # data["A"][2]
    /\ Len(join.yields) = 2
    /\ join.yields[1].id = 1 /\ join.yields[2].id = 2

\* C7: in a write join pass no id is visited twice and no two exclusive
\* references handed out refer to the same slot; a write through the
\* references of a visit changes only the slots of that id, and every slot
\* visited so far holds the value written to it.
WriteJoinDisjoint ==
    [][(pc = "join" /\ join.kind = "write"
            /\ Len(join'.written) = Len(join.written) + 1) =>
          LET n == Len(join.parts)
              m == Len(join'.written)
              id == join'.written[m].id
          IN /\ \A k \in 1..Len(join.written) : join.written[k].id # id
             /\ \A a, b \in 1..Len(join'.refs) :
                   a # b => join'.refs[a] # join'.refs[b]
             /\ \A s \in Storages, i \in Ids :
                   (i # id \/ \A p \in 1..n : join.parts[p] # s) =>
                       data'[s][i] = data[s][i]
             /\ \A k \in 1..m : \A p \in 1..n :
                   data'[join.parts[p]][join'.written[k].id] =
                       Some(join'.written[k].w[p])]_vars

\* A finished write join over A with every id present: all ids were visited
\* and the first two were given different values.
WriteJoinDisjointWitness ==
    /\ pc = "join" /\ join.kind = "write" /\ join.keys = <<>>
    /\ join.parts = <<"A">> /\ bitset["A"] = Ids
    /\ Len(join.written) = Cardinality(Ids)
    /\ join.written[1].w # join.written[2].w

\* C8: once a storage is dropped, data.clean has been called with the final
\* presence set and has released exactly the slots present at that moment,
\* each once and each holding a component; no absent slot was released and no
\* component is left behind.
DropReleasesPresent ==
    /\ (pc = "return" /\ last.name = "drop") =>
           (Len(trace) = 1 /\ trace[1].fn = "data.clean"
               /\ trace[1].mask = bitset[last.s])
    /\ \A s \in Storages : ~alive[s] =>
           \A i \in Ids :
               /\ i \in bitset[s] =>
                     (Len(released[s][i]) = 1 /\ released[s][i][1])
               /\ i \notin bitset[s] => released[s][i] = <<>>
               /\ data[s][i] = Uninit

\* A was dropped while present at its first and its last id only.
DropReleasesPresentWitness ==
    /\ ~alive["A"] /\ bitset["A"] = {0, MaxId}
    /\ Len(released["A"][0]) = 1 /\ Len(released["A"][MaxId]) = 1
    /\ released["A"][1] = <<>>

\* C9: on every exit path, an unwind out of the middle of insert or remove
\* included, the cleanup pass runs once (it has not run before the unwind
\* reaches the drop) and releases exactly the slots of the presence set, which
\* are exactly the slots that hold an initialized component.
CleanupOnEveryExitPath ==
    /\ pc = "unwind" => alive[op.s]
    /\ \A s \in Storages : ~alive[s] =>
           \A i \in Ids :
               /\ Len(released[s][i]) = (IF i \in bitset[s] THEN 1 ELSE 0)
               /\ \A k \in 1..Len(released[s][i]) : released[s][i][k]
               /\ data[s][i] = Uninit

\* C10: no id is invalid: in every state between operations insert and remove
\* can be called with every id, every operation in progress can take its
\* next step, and right after insert(i, v) i is present and get(i) is Some(v).
InsertNeverFails ==
    /\ \A s \in Storages : (pc = "idle" /\ alive[s]) =>
           \A i \in Ids :
               /\ ENABLED RemoveBit(s, i)
               /\ \A v \in CompVals(s) : ENABLED InsertAdd(s, i, v)
    /\ pc = "insert_match" => ENABLED InsertMatch
    /\ pc = "insert_write" => ENABLED InsertWrite
    /\ pc = "remove_match" => ENABLED RemoveMatch
    /\ (pc = "return" /\ last.name = "insert") =>
           /\ last.id \in bitset[last.s]
           /\ GetResults(last.s, last.id) = {last.arg}

\* An insert at the largest id has completed on a storage that held that id
\* before.
InsertNeverFailsWitness ==
    /\ pc = "return" /\ last.name = "insert" /\ last.id = MaxId
    /\ last.ret # None

\* C11: a storage into which nothing was inserted yet is empty: its presence
\* set contains no index, get and get_mut return None for every id, and a join
\* it takes part in visits nothing.
NewStorageIsEmpty ==
    \A s \in Storages : (fresh[s] /\ alive[s]) =>
        /\ bitset[s] = {}
        /\ \A i \in Ids : GetResults(s, i) = {None}
        /\ (pc = "return" /\ last.name \in {"get", "get_mut"} /\ last.s = s) =>
               last.ret = None
        /\ (pc = "join" /\ \E k \in 1..Len(join.parts) : join.parts[k] = s) =>
               (join.keys = <<>> /\ join.yields = <<>> /\ join.written = <<>>)

\* A join over the new storage A and a storage B that holds components.
NewStorageIsEmptyWitness ==
    /\ pc = "join" /\ join.parts = <<"A", "B">>
    /\ fresh["A"] /\ alive["A"] /\ bitset["B"] # {}

\* C12: in the 8x8 example, after the seeding loop (63 ids) and the four
\* overriding inserts, the read join counts 60 cells of Dirt, 2 of Grass and
\* 2 of Water.
GridCountsSixtyDirt ==
    grid.pc = "done" =>
        /\ grid.counts["Dirt"] = 60
        /\ grid.counts["Grass"] = 2
        /\ grid.counts["Water"] = 2

\* C18: the seeding loop never inserts the id of the last cell,
\* id(Width - 1, Height - 1) = Width * Height - 1: once the storage is
\* initialized get returns None for it and a value for every other cell, and
\* the join visits Width * Height - 1 cells (63 of the 64).
GridLastCellMissing ==
    /\ TileId(Width - 1, Height - 1) = Width * Height - 1
    /\ grid.pc \in {"run", "join", "done"} =>
           /\ StGet(grid, TileId(Width - 1, Height - 1)) = None
           /\ \A i \in GridIds \ {TileId(Width - 1, Height - 1)} :
                 StGet(grid, i) # None
    /\ grid.pc = "done" =>
           /\ Len(grid.visited) = Width * Height - 1
           /\ \A k \in 1..Len(grid.visited) : grid.visited[k] = k - 1

\* The example has run to its end.
GridLastCellMissingWitness ==
    /\ grid.pc = "done" /\ grid.got = Some("Water")
    /\ Len(grid.visited) = 63

\* C13: within insert(i, v) the id is marked in the presence set strictly
\* before the raw insert of v: in every step of an insert in progress i is in
\* the presence set and bitset.add is the first call made, no raw insert has
\* been made while the operation is still before its write, and when the
\* write has happened the slot holds v with i in the presence set.
InsertMarksBeforeWrite ==
    /\ pc \in {"insert_match", "insert_write"} =>
           /\ op.id \in bitset[op.s]
           /\ trace # <<>> /\ trace[1].fn = "bitset.add"
           /\ \A k \in 1..Len(trace) : trace[k].fn # "data.insert"
    /\ (pc = "return" /\ last.name = "insert") =>
           /\ last.id \in bitset[last.s]
           /\ data[last.s][last.id] = last.arg
           /\ Len(trace) >= 2
           /\ trace[1].fn = "bitset.add"
           /\ trace[Len(trace)].fn = "data.insert"
           /\ \A k \in 1..(Len(trace) - 1) : trace[k].fn # "data.insert"

\* An insert on an absent id after its bitset.add and before its raw insert:
\* the id is marked and the slot is still empty.
InsertMarksBeforeWriteWitness ==
    /\ pc = "insert_write" /\ ~op.was
    /\ op.id \in bitset[op.s]
    /\ data[op.s][op.id] = Uninit

\* C14 as stated: on an id that is already present, insert first makes the
\* raw remove, then bitset.add, then the raw insert.
InsertOrderRemoveAddInsert ==
    /\ (pc = "insert_write" /\ op.was) =>
           [k \in 1..Len(trace) |-> trace[k].fn] = <<"data.remove", "bitset.add">>
    /\ (pc = "return" /\ last.name = "insert" /\ last.ret # None) =>
           [k \in 1..Len(trace) |-> trace[k].fn] =
               <<"data.remove", "bitset.add", "data.insert">>

\* C14, amended: on an id that is already present, insert first calls
\* bitset.add (which reports the id as present), then makes the raw remove of
\* the previous value, then the raw insert of the new one.
InsertOrderAddRemoveInsert ==
    /\ pc = "insert_match" =>
           [k \in 1..Len(trace) |-> trace[k].fn] = <<"bitset.add">>
    /\ (pc = "insert_write" /\ op.was) =>
           [k \in 1..Len(trace) |-> trace[k].fn] = <<"bitset.add", "data.remove">>
    /\ (pc = "return" /\ last.name = "insert" /\ last.ret # None) =>
           [k \in 1..Len(trace) |-> trace[k].fn] =
               <<"bitset.add", "data.remove", "data.insert">>

\* An insert on a present id has returned the previous value.
InsertOrderAddRemoveInsertWitness ==
    /\ pc = "return" /\ last.name = "insert" /\ last.ret # None
    /\ Len(trace) = 3

\* C15: every raw get, get_mut and remove that get, get_mut, insert and
\* remove make targets a slot that is initialized at the time of the call, and
\* a get or get_mut of an absent id returns None after the membership test
\* alone, without a call of the backing strategy.
RawCallsTargetInitialized ==
    /\ \A k \in 1..Len(trace) :
           trace[k].fn \in {"data.get", "data.get_mut", "data.remove"} =>
               trace[k].init
    /\ (pc = "return" /\ last.name \in {"get", "get_mut"}
            /\ ~BitSetContains(bitset[last.s], last.id)) =>
           /\ last.ret = None
           /\ [k \in 1..Len(trace) |-> trace[k].fn] = <<"bitset.contains">>

\* A get_mut of a present id has made its raw call while another id of the
\* storage is absent.
RawCallsTargetInitializedWitness ==
    /\ pc = "return" /\ last.name = "get_mut" /\ last.ret # None
    /\ Len(trace) = 2 /\ trace[2].fn = "data.get_mut"
    /\ bitset[last.s] # Ids

\* C16: in a join, read or write, with one or several participants, the raw
\* get of a participant is only ever called with an index that is in that
\* participant's presence set (and whose slot is therefore initialized).
JoinRawGetOnlyPresent ==
    pc = "join" =>
        \A k \in 1..Len(trace) :
            trace[k].fn \in {"join.get", "join.get_mut"} =>
                /\ trace[k].id \in bitset[trace[k].s]
                /\ trace[k].init

\* A join of two storages with different presence sets has visited a key.
JoinRawGetOnlyPresentWitness ==
    /\ pc = "join" /\ Len(join.parts) = 2
    /\ bitset["A"] # bitset["B"]
    /\ \E k \in 1..Len(trace) : trace[k].fn \in {"join.get", "join.get_mut"}

\* C17: a join never changes a presence set; a read join leaves every value
\* as it is, and an iteration of a write join changes values only at the id
\* it visits, in the storages that take part.
JoinPreservesPresence ==
    [][(pc = "join" \/ pc' = "join") =>
          /\ bitset' = bitset
          /\ IF pc = "join" /\ join.kind = "write" /\ join.keys # <<>>
             THEN \A s \in Storages : \A i \in Ids :
                     data'[s][i] # data[s][i] =>
                         /\ i = Head(join.keys)
                         /\ \E k \in 1..Len(join.parts) : join.parts[k] = s
             ELSE data' = data]_vars

\* A write join over "A" alone has written a value at the last of several
\* present ids while "B" holds values too.
JoinPreservesPresenceWitness ==
    /\ pc = "join" /\ join.kind = "write" /\ join.parts = <<"A">>
    /\ Len(join.written) >= 2
    /\ bitset["B"] # {}

\* C19: every value given to insert leaves the storage exactly once.  A step
\* that empties an initialized slot either moves the value out to be returned
\* (as the previous value of an insert, or as the result of a remove) or is
\* the cleanup, which releases it; the raw insert writes into an empty slot
\* only, so no value is overwritten in place of being returned; the cleanup
\* releases initialized slots only, each once, and leaves no slot initialized.
ValuesLeaveExactlyOnce ==
    [][/\ \A s \in Storages : \A i \in Ids :
            /\ (data[s][i] # Uninit /\ data'[s][i] = Uninit) =>
                  \/ /\ pc = "insert_match" /\ op.s = s /\ op.id = i
                     /\ op'.old = data[s][i]
                  \/ /\ pc = "remove_match" /\ op.s = s /\ op.id = i
                     /\ pc' = "return" /\ last'.ret = data[s][i]
                  \/ /\ alive[s] /\ ~alive'[s]
                     /\ released'[s][i] = Append(released[s][i], TRUE)
            /\ released'[s][i] # released[s][i] =>
                  /\ alive[s] /\ ~alive'[s]
                  /\ released[s][i] = <<>>
                  /\ released'[s][i] = <<data[s][i] # Uninit>>
                  /\ data[s][i] # Uninit
            /\ (alive[s] /\ ~alive'[s]) => data'[s][i] = Uninit
       /\ pc = "insert_write" =>
            /\ data[op.s][op.id] = Uninit
            /\ data'[op.s][op.id] = op.comp
            /\ last'.ret = op.old
            /\ op.was <=> op.old # None]_vars

\* A storage has been dropped: one of its values was released by the cleanup
\* and a slot that was emptied before was not released again.
ValuesLeaveExactlyOnceWitness ==
    /\ pc = "return" /\ last.name = "drop"
    /\ \E i \in Ids : released[last.s][i] = <<TRUE>>
    /\ \E j \in Ids : released[last.s][j] = <<>>
    /\ \A i \in Ids : data[last.s][i] = Uninit

\* C20: the operations are local.  A get changes nothing; get_mut, insert and
\* remove on (s, i) leave the membership and the value of every other id of s
\* and all of every other storage as they are; dropping s or joining over
\* some storages leaves every other storage as it is.
OperationsAreLocal ==
    [][/\ (pc = "idle" /\ pc' = "return" /\ last'.name = "get") =>
            /\ bitset' = bitset /\ data' = data
            /\ alive' = alive /\ released' = released
       /\ (pc = "idle" /\ pc' = "return" /\ last'.name = "get_mut") =>
            \A s \in Storages : \A j \in Ids :
                <<s, j>> # <<last'.s, last'.id>> =>
                    /\ (j \in bitset'[s]) <=> (j \in bitset[s])
                    /\ data'[s][j] = data[s][j]
       /\ (pc = "idle" /\ pc' \in {"insert_match", "remove_match"}) =>
            \A s \in Storages : \A j \in Ids :
                <<s, j>> # <<op'.s, op'.id>> =>
                    /\ (j \in bitset'[s]) <=> (j \in bitset[s])
                    /\ data'[s][j] = data[s][j]
       /\ pc \in {"insert_match", "insert_write", "remove_match"} =>
            \A s \in Storages : \A j \in Ids :
                <<s, j>> # <<op.s, op.id>> =>
                    /\ (j \in bitset'[s]) <=> (j \in bitset[s])
                    /\ data'[s][j] = data[s][j]
       /\ (pc = "idle" /\ pc' = "return" /\ last'.name = "drop") =>
            \A s \in Storages \ {last'.s} :
                /\ bitset'[s] = bitset[s] /\ data'[s] = data[s]
                /\ alive'[s] = alive[s] /\ released'[s] = released[s]
       /\ pc = "join" =>
            \A s \in Storages :
                (\A k \in 1..Len(join.parts) : join.parts[k] # s) =>
                    bitset'[s] = bitset[s] /\ data'[s] = data[s]
       /\ (alive' # alive \/ released' # released) =>
            (pc = "idle" /\ pc' = "return" /\ last'.name = "drop")]_vars

\* A get_mut has written through its reference while the storage holds
\* another id and the other storage holds values too.
OperationsAreLocalWitness ==
    /\ pc = "return" /\ last.name = "get_mut" /\ last.ret # None
    /\ last.arg # last.ret
    /\ bitset[last.s] \ {last.id} # {}
    /\ \E s \in Storages \ {last.s} : bitset[s] # {}
====
